---- MODULE Spec2Model ----
(***************************************************************************)
(* Model of skills/video-clip-maker/video-clip-maker.py: one run of main() *)
(* as a sequential state machine.  Every external invocation               *)
(* (subprocess.run, whisper, shutil.copy2) is a nondeterministic choice    *)
(* over the outcomes Python can produce at that call site:                 *)
(*   "ok"          the call returned,                                      *)
(*   "tool_error"  subprocess.CalledProcessError (non-zero exit status),   *)
(*   "fault"       any other exception (OSError, UnicodeDecodeError, ...). *)
(* Which of these an except clause catches is taken from the source.       *)
(* Times: durations are whole seconds; a start time is kept doubled        *)
(* (start_time2 = 2 * start_time) so that (total - duration) / 2 stays an  *)
(* integer.                                                                *)
(* Parts that do not depend on the course of a run are followed in         *)
(* specifications of their own: FrameSpec (frame geometry), ConcSpec (two  *)
(* runs side by side), ProbeSpec (the two ffprobe calls) and EmailSpec     *)
(* (skills/email-automation/classify.py).                                  *)
(***************************************************************************)
EXTENDS Integers, Sequences, FiniteSets, TLC

VARIABLES
    HAS_OPENCV,     \* module global, line 17-23
    HAS_WHISPER,    \* module global, line 25-30
    method,         \* args.highlight_method
    req_duration,   \* args.duration (seconds)
    src_duration,   \* true duration of the source video (seconds)
    pc,             \* position of main()
    fs,             \* file system: path -> content
    start_time2,    \* 2 * start_time returned by detect_highlights
    duration,       \* duration returned by detect_highlights
    final_path,     \* main's final_path
    sub_ret,        \* what generate_subtitles returned
    burn_ret,       \* what burn_subtitles returned
    thumb_ret,      \* what generate_thumbnail returned
    record,         \* the metadata written at line 447-449
    exit_code,      \* process exit status, -1 while running
    ended_in,       \* function in which the run was ended
    uncaught,       \* TRUE when the run ended by an uncaught exception
    log,            \* history of external invocations and file operations
    segments,       \* start times of the segments written to the .srt file
    frame,          \* the frame geometry of create_vertical_clip, line 173-211
    conc,           \* two runs of main side by side and the files they share
    probe,          \* the two ffprobe calls, line 109-123 and 173-187
    email           \* one call of EmailClassifier.classify_email

vars == <<HAS_OPENCV, HAS_WHISPER, method, req_duration, src_duration, pc, fs,
          start_time2, duration, final_path, sub_ret, burn_ret, thumb_ret,
          record, exit_code, ended_in, uncaught, log, segments, frame, conc,
          probe, email>>

\* What no step of main changes
config == <<HAS_OPENCV, HAS_WHISPER, method, req_duration, src_duration, frame,
           conc, probe, email>>

----------------------------------------------------------------------------
(* Inputs *)

DefaultDuration == 300

Methods == {"audio", "face", "motion"}

\* Short clips and short requests: every whole second up to this bound
MaxShortDuration == 2

\* Durations (seconds) of the source video: the short ones, the values of
\* the documented scenarios, and values around a request of 60
SourceDurations == (1..MaxShortDuration) \cup {10, 30, 60, 61, DefaultDuration}

\* args.duration, line 377 (default 60)
RequestedDurations == (1..MaxShortDuration) \cup {30, 60}

Paths == {"original", "vertical", "srt", "final", "thumbnail", "metadata",
          "tmp_srt", "tmp_wav"}

Outcomes == {"ok", "tool_error", "fault"}

NoRecord == [written |-> FALSE]

Max(a, b) == IF a >= b THEN a ELSE b

\* The frame geometry is followed in FrameSpec; in a run of main it is idle
FrameIdle == [stage |-> "idle"]

\* Two concurrent runs are followed in ConcSpec; in a single run of main
\* there is no second run
ConcIdle == [stage |-> "idle"]

\* The two probes are followed on their own in ProbeSpec
ProbeIdle == [stage |-> "idle"]

\* The e-mail classifier is a program of its own, followed in EmailSpec
EmailIdle == [stage |-> "idle"]

----------------------------------------------------------------------------
(* Helpers *)

Exists(files, p) == files[p] /= "absent"

Entry(op, src, dst, res) == [op |-> op, src |-> src, dst |-> dst, res |-> res]

\* What an ffmpeg/yt-dlp run with "-y dst" can leave at dst.
Written(res, old, full) ==
    IF res = "ok" THEN {full} ELSE {old, "partial"}

\* sys.exit(1), or an exception nobody catches: the process ends, status 1
Abort(fn, exc) ==
    /\ pc' = "Aborted"
    /\ exit_code' = 1
    /\ ended_in' = fn
    /\ uncaught' = exc

Running == UNCHANGED <<exit_code, ended_in, uncaught>>

----------------------------------------------------------------------------
Init ==
    /\ HAS_OPENCV \in BOOLEAN
    /\ HAS_WHISPER \in BOOLEAN
    /\ method \in Methods
    /\ req_duration \in RequestedDurations
    /\ src_duration \in SourceDurations
    /\ pc = "Start"
    /\ fs = [p \in Paths |-> "absent"]
    /\ start_time2 = 0
    /\ duration = 0
    /\ final_path = "unset"
    /\ sub_ret = "not_called"
    /\ burn_ret = "not_called"
    /\ thumb_ret = "not_called"
    /\ record = NoRecord
    /\ exit_code = -1
    /\ ended_in = "none"
    /\ uncaught = FALSE
    /\ log = <<>>
    /\ segments = <<>>
    /\ frame = FrameIdle
    /\ conc = ConcIdle
    /\ probe = ProbeIdle
    /\ email = EmailIdle

----------------------------------------------------------------------------
(* main, line 385-387: check_dependencies *)
CheckDependencies ==
    /\ pc = "Start"
    /\ \E ok \in BOOLEAN :
          IF ok THEN pc' = "Acquiring" /\ Running
                ELSE Abort("check_dependencies", FALSE)
    /\ UNCHANGED <<config, segments, fs, start_time2, duration, final_path, sub_ret,
                   burn_ret, thumb_ret, record, log>>

\* What yt-dlp can leave at output_dir/original.*: after a zero exit status
\* the file is normally there, but lines 70-80 provide for it being missing.
Downloaded(res) ==
    IF res = "ok" THEN {"source", "absent"} ELSE {"absent", "partial"}

\* download_video, line 65-84: the path returned, "None" for None, "raise"
\* for an exception leaving the function (FileNotFoundError of line 80, or
\* whatever subprocess.run raised that is not CalledProcessError).
download_video(res, c) ==
    CASE res = "ok" /\ c /= "absent" -> "original"
      [] res = "ok" /\ c = "absent"  -> "raise"
      [] res = "tool_error"          -> "None"
      [] res = "fault"               -> "raise"

(* main, line 395-399 *)
DownloadVideo ==
    /\ pc = "Acquiring"
    /\ \E res \in Outcomes :
         \E c \in Downloaded(res) :
          /\ fs' = [fs EXCEPT !["original"] = c]
          /\ log' = Append(log, Entry("download", "url", "original", res))
          /\ CASE download_video(res, c) = "original" -> pc' = "Acquired" /\ Running
               [] download_video(res, c) = "None"     -> Abort("download_video", FALSE)
               [] download_video(res, c) = "raise"    -> Abort("download_video", TRUE)
    /\ UNCHANGED <<config, segments, start_time2, duration, final_path, sub_ret,
                   burn_ret, thumb_ret, record>>

----------------------------------------------------------------------------
(* Highlight selection *)

\* get_video_duration, line 109-123: the parsed ffprobe output, or 300 on
\* any exception (bare except: tool errors and faults alike).
get_video_duration(res) ==
    IF res = "ok" THEN src_duration ELSE DefaultDuration

\* 2 * max(0, (total_duration - duration) / 2), line 106, 153, 159, 166
Midpoint2(total, d) == Max(0, total - d)

AudioOutcomes == Outcomes \cup {"decode_error"}

\* detect_audio_highlights, line 125-160: what is left of the temporary
\* .wav file.  It is unlinked (line 149) only when ffmpeg and wave.open both
\* succeeded; the except branch (line 156-160) does not unlink it.
TmpWavAfter(ares) ==
    CASE ares = "ok"           -> {"absent"}
      [] ares = "decode_error" -> {"wav"}
      [] OTHER                 -> {"empty", "partial"}

\* detect_audio_highlights, line 151-160: both branches return the same
detect_audio_highlights(total, target_duration) ==
    <<Midpoint2(total, target_duration), target_duration>>

\* Mutant: the face strategy starts at the beginning of the source
detect_face_segments_FromStart(total, target_duration) ==
    <<0, target_duration>>

\* detect_face_segments, line 162-167
detect_face_segments(total, target_duration) ==
    <<Midpoint2(total, target_duration), target_duration>>

\* detect_highlights, line 86-107: <<2 * start_time, duration>>.  Without
\* OpenCV the function returns the probed total duration as the start time
\* (line 93).
detect_highlights(has_opencv, m, d, total) ==
    IF ~has_opencv THEN <<2 * total, d>>
    ELSE CASE m = "audio" -> detect_audio_highlights(total, d)
           [] m = "face"  -> detect_face_segments(total, d)
           [] OTHER       -> <<Midpoint2(total, d), d>>

\* Whether detect_highlights runs the audio strategy (line 90, 98)
UsesAudio == HAS_OPENCV /\ method = "audio"

(* main, line 401-402.  pres: the outcome of the ffprobe run whose result   *)
(* the selected strategy uses; ares: the outcome of the audio extraction.  *)
DetectHighlights ==
    /\ pc = "Acquired"
    /\ \E pres \in Outcomes, ares \in AudioOutcomes :
         \E w \in TmpWavAfter(ares) :
          LET total == get_video_duration(pres)
              hl    == detect_highlights(HAS_OPENCV, method, req_duration, total)
          IN  /\ start_time2' = hl[1]
              /\ duration' = hl[2]
              /\ IF UsesAudio
                 THEN /\ fs' = [fs EXCEPT !["tmp_wav"] = w]
                      /\ log' = log \o <<Entry("extract_audio", "original", "tmp_wav", ares),
                                         Entry("probe_duration", "original", "none", pres)>>
                 ELSE /\ ares = "ok" /\ w = "absent"
                      /\ fs' = fs
                      /\ log' = Append(log, Entry("probe_duration", "original", "none", pres))
    /\ pc' = "WindowSelected"
    /\ Running
    /\ UNCHANGED <<config, segments, final_path, sub_ret, burn_ret, thumb_ret, record>>

----------------------------------------------------------------------------
(* Core transform *)

\* Mutant: the encode failure is not reported to main
create_vertical_clip_IgnoresError(res) ==
    CASE res = "ok"         -> "True"
      [] res = "tool_error" -> "True"
      [] res = "fault"      -> "raise"

\* create_vertical_clip, line 213-219: True, False, or "raise" when
\* subprocess.run raises something other than CalledProcessError
create_vertical_clip(res) ==
    CASE res = "ok"         -> "True"
      [] res = "tool_error" -> "False"
      [] res = "fault"      -> "raise"

(* main, line 404-408 *)
CreateVerticalClip ==
    /\ pc = "WindowSelected"
    /\ \E res \in Outcomes :
         \E c \in Written(res, fs["vertical"], "clip") :
          /\ fs' = [fs EXCEPT !["vertical"] = c]
          /\ log' = Append(log, Entry("transform", "original", "vertical", res))
          /\ CASE create_vertical_clip(res) = "True"  -> pc' = "Transformed" /\ Running
               [] create_vertical_clip(res) = "False" -> Abort("create_vertical_clip", FALSE)
               [] create_vertical_clip(res) = "raise" -> Abort("create_vertical_clip", TRUE)
    /\ UNCHANGED <<config, segments, start_time2, duration, final_path, sub_ret,
                   burn_ret, thumb_ret, record>>

----------------------------------------------------------------------------
(* Transcription *)

\* Outcomes of generate_subtitles' try block, line 229-252: "engine_error"
\* is an exception before the .srt file is opened (load_model, transcribe,
\* open), "write_fault" an exception after open() created the file (in the
\* loop of line 235-246 or when the file is closed).
TranscribeOutcomes == {"ok", "engine_error", "write_fault"}

\* The .srt file after generate_subtitles, line 234-246
SrtAfter(old, tres) ==
    CASE tres = "ok"           -> "srt"
      [] tres = "engine_error" -> old
      [] tres = "write_fault"  -> "partial"

\* Start times (seconds) of the segments whisper may return, in the order
\* it returns them: increasing, equal, decreasing
Transcripts == {<<0, 2>>, <<2, 2>>, <<2, 0>>}

\* generate_subtitles, line 235-246: the segments are written in the order
\* and with the times whisper gave, nothing is checked or dropped.  After a
\* fault no complete segment list is on file.
Transcribed(tres) ==
    IF tres = "ok" THEN Transcripts ELSE {<<>>}

\* generate_subtitles, line 221-252: its return value
generate_subtitles(has_whisper, tres) ==
    IF ~has_whisper THEN "False"
    ELSE IF tres = "ok" THEN "True" ELSE "False"

(* main, line 410-413: the call is made only if HAS_WHISPER, and its      *)
(* return value is not used.                                                *)
GenerateSubtitles ==
    /\ pc = "Transformed"
    /\ IF HAS_WHISPER
       THEN \E tres \in TranscribeOutcomes :
             \E segs \in Transcribed(tres) :
              /\ fs' = [fs EXCEPT !["srt"] = SrtAfter(fs["srt"], tres)]
              /\ segments' = segs
              /\ sub_ret' = generate_subtitles(HAS_WHISPER, tres)
              /\ log' = Append(log, Entry("transcribe", "vertical", "srt", tres))
       ELSE UNCHANGED <<fs, sub_ret, log, segments>>
    /\ pc' = "TranscribeAttempted"
    /\ Running
    /\ UNCHANGED <<config, start_time2, duration, final_path, burn_ret,
                   thumb_ret, record>>

----------------------------------------------------------------------------
(* Caption burning *)

\* Mutant: an attempt after the first re-encodes what the one before left
BurnInput_Chained(k) == IF k = 1 THEN "vertical" ELSE "final"

\* Mutant: the attempts re-encode the downloaded source, not the clip
BurnInput_Source(k) == "original"

\* burn_subtitles, line 282, 305, 321: every attempt reads video_path
BurnInput(k) == "vertical"

\* Mutant: the third attempt re-encodes onto its own input
BurnOutput_OverInput(k) == IF k = 3 THEN "vertical" ELSE "final"

\* burn_subtitles, line 286, 309, 324: every attempt writes "-y output_path"
BurnOutput(k) == "final"

\* What attempt k leaves at its output when it succeeds
BurnContent(k) ==
    CASE k = 1 -> "plain_captions"
      [] k = 2 -> "styled_captions"
      [] k = 3 -> "no_captions"

\* Mutant: a successful caption attempt does not return
AfterAttempt_NoReturn(k, res) ==
    CASE res = "ok" /\ k < 3         -> "next_attempt"
      [] res = "ok" /\ k = 3         -> "return_True"
      [] res = "tool_error" /\ k < 3 -> "next_attempt"
      [] res = "tool_error" /\ k = 3 -> "return_False"
      [] res = "fault"               -> "raise"

\* burn_subtitles, line 288-337: what follows attempt k.  Only
\* CalledProcessError is caught (line 293, 316, 331).
AfterAttempt(k, res) ==
    CASE res = "ok"                  -> "return_True"
      [] res = "tool_error" /\ k < 3 -> "next_attempt"
      [] res = "tool_error" /\ k = 3 -> "return_False"
      [] res = "fault"               -> "raise"

\* burn_subtitles, line 291, 314, 329, 333-336: os.unlink(tmp_srt_path)
UnlinksTmp(k, res) ==
    \/ res = "ok"
    \/ res = "tool_error" /\ k = 3

\* Mutant: the encode chain is entered without looking for the .srt file
BurnCalled_Always(files) == TRUE

\* main, line 417 (and burn_subtitles, line 263): the encode chain is
\* entered only if the .srt file exists
BurnCalled(files) == Exists(files, "srt")

\* Mutant: whatever lies at the final path is taken, whatever was returned
FinalPath_IgnoresReturn(ret, files) ==
    IF Exists(files, "final") THEN "final" ELSE "vertical"

\* main, line 416-426: final_path once the caption stage is over.
\* ret is burn_subtitles' return value, "not_called" if it was not called.
FinalPath(ret, files) ==
    LET chosen == IF ret = "True" THEN "final" ELSE "vertical"
    IN  IF ~Exists(files, chosen) THEN "vertical" ELSE chosen

BurnPc(k) ==
    CASE k = 1 -> "Burn1"
      [] k = 2 -> "Burn2"
      [] k = 3 -> "Burn3"

\* shutil.copy2, line 273: it returns or raises
CopyOutcomes == {"ok", "fault"}

\* The temporary .srt after NamedTemporaryFile (line 271-272) and copy2
TmpSrtAfter(cres, src) ==
    IF cres = "ok" THEN {src} ELSE {"empty", "partial"}

(* main, line 415-422, and burn_subtitles, line 263-278: up to the first  *)
(* ffmpeg invocation.                                                      *)
BurnBegin ==
    /\ pc = "TranscribeAttempted"
    /\ IF BurnCalled(fs)
       THEN \E cres \in CopyOutcomes :
             \E t \in TmpSrtAfter(cres, fs["srt"]) :
              /\ fs' = [fs EXCEPT !["tmp_srt"] = t]
              /\ log' = log \o <<Entry("mktemp", "none", "tmp_srt", "ok"),
                                 Entry("copy", "srt", "tmp_srt", cres)>>
              /\ final_path' = "final"
              /\ IF cres = "ok" THEN pc' = BurnPc(1) /\ Running
                                ELSE Abort("burn_subtitles", TRUE)
       ELSE /\ final_path' = FinalPath("not_called", fs)
            /\ pc' = "Captioned"
            /\ Running
            /\ UNCHANGED <<fs, log>>
    /\ UNCHANGED <<config, segments, start_time2, duration, sub_ret, burn_ret,
                   thumb_ret, record>>

(* burn_subtitles, line 280-337: attempt k, and main's handling of the    *)
(* return value, line 418-426.                                             *)
BurnAttempt(k) ==
    /\ pc = BurnPc(k)
    /\ \E res \in Outcomes :
         \E c \in Written(res, fs[BurnOutput(k)], BurnContent(k)) :
          LET after == AfterAttempt(k, res)
              files == [fs EXCEPT ![BurnOutput(k)] = c,
                                  !["tmp_srt"] = IF UnlinksTmp(k, res)
                                                 THEN "absent" ELSE @]
              ret   == IF after = "return_True" THEN "True" ELSE "False"
          IN  /\ fs' = files
              /\ log' = Append(log, Entry(BurnPc(k), BurnInput(k), BurnOutput(k), res))
              /\ CASE after = "next_attempt" ->
                        /\ pc' = BurnPc(k + 1)
                        /\ Running
                        /\ UNCHANGED <<final_path, burn_ret>>
                   [] after = "raise" ->
                        /\ Abort("burn_subtitles", TRUE)
                        /\ UNCHANGED <<final_path, burn_ret>>
                   [] OTHER ->
                        /\ burn_ret' = ret
                        /\ final_path' = FinalPath(ret, files)
                        /\ pc' = "Captioned"
                        /\ Running
    /\ UNCHANGED <<config, segments, start_time2, duration, sub_ret, thumb_ret, record>>

----------------------------------------------------------------------------
(* Thumbnail *)

\* generate_thumbnail, line 353-358: what follows the primary extraction.
\* Only CalledProcessError is caught (line 357).
AfterPrimary(res) ==
    CASE res = "ok"         -> "return_True"
      [] res = "tool_error" -> "fallback"
      [] res = "fault"      -> "raise"

\* generate_thumbnail, line 367-372: the fallback's return value (bare
\* except)
AfterFallback(res) ==
    IF res = "ok" THEN "True" ELSE "False"

(* main, line 428-430, generate_thumbnail, line 339-358 *)
ThumbPrimary ==
    /\ pc = "Captioned"
    /\ \E res \in Outcomes :
         \E c \in Written(res, fs["thumbnail"], "frame_at_time") :
          /\ fs' = [fs EXCEPT !["thumbnail"] = c]
          /\ log' = Append(log, Entry("thumb_primary", final_path, "thumbnail", res))
          /\ CASE AfterPrimary(res) = "return_True" ->
                        pc' = "Thumbnailed" /\ thumb_ret' = "True" /\ Running
               [] AfterPrimary(res) = "fallback" ->
                        pc' = "ThumbFallback" /\ thumb_ret' = thumb_ret /\ Running
               [] AfterPrimary(res) = "raise" ->
                        Abort("generate_thumbnail", TRUE) /\ thumb_ret' = thumb_ret
    /\ UNCHANGED <<config, segments, start_time2, duration, final_path, sub_ret,
                   burn_ret, record>>

(* generate_thumbnail, line 359-372 *)
ThumbFallback ==
    /\ pc = "ThumbFallback"
    /\ \E res \in Outcomes :
         \E c \in Written(res, fs["thumbnail"], "first_frame") :
          /\ fs' = [fs EXCEPT !["thumbnail"] = c]
          /\ log' = Append(log, Entry("thumb_fallback", final_path, "thumbnail", res))
          /\ thumb_ret' = AfterFallback(res)
    /\ pc' = "Thumbnailed"
    /\ Running
    /\ UNCHANGED <<config, segments, start_time2, duration, final_path, sub_ret,
                   burn_ret, record>>

----------------------------------------------------------------------------
(* Metadata *)

\* Mutant: the record is written without the chosen window
Metadata_NoWindow(files) ==
    [written       |-> TRUE,
     original_url  |-> "url",
     timestamp     |-> "timestamp",
     quality       |-> "quality",
     clip_start2   |-> 0,
     clip_duration |-> 0,
     vertical_clip |-> "vertical",
     final_clip    |-> final_path,
     thumbnail     |-> "thumbnail",
     subtitles     |-> IF Exists(files, "srt") THEN "srt" ELSE "None"]

\* main, line 433-445.  "url", "timestamp" and "quality" stand for args.url,
\* the timestamp of line 393 and args.quality.
Metadata(files) ==
    [written       |-> TRUE,
     original_url  |-> "url",
     timestamp     |-> "timestamp",
     quality       |-> "quality",
     clip_start2   |-> start_time2,
     clip_duration |-> duration,
     vertical_clip |-> "vertical",
     final_clip    |-> final_path,
     thumbnail     |-> "thumbnail",
     subtitles     |-> IF Exists(files, "srt") THEN "srt" ELSE "None"]

(* main, line 432-461: the record is written and main returns *)
WriteMetadata ==
    /\ pc = "Thumbnailed"
    /\ record' = Metadata(fs)
    /\ fs' = [fs EXCEPT !["metadata"] = "record"]
    /\ log' = Append(log, Entry("write_record", "none", "metadata", "ok"))
    /\ pc' = "Complete"
    /\ exit_code' = 0
    /\ ended_in' = "main"
    /\ uncaught' = FALSE
    /\ UNCHANGED <<config, segments, start_time2, duration, final_path, sub_ret,
                   burn_ret, thumb_ret>>

----------------------------------------------------------------------------
Next ==
    \/ CheckDependencies
    \/ DownloadVideo
    \/ DetectHighlights
    \/ CreateVerticalClip
    \/ GenerateSubtitles
    \/ BurnBegin
    \/ \E k \in 1..3 : BurnAttempt(k)
    \/ ThumbPrimary
    \/ ThumbFallback
    \/ WriteMetadata

Spec == Init /\ [][Next]_vars

\* main is one sequential thread: a step that can be taken is taken
FairSpec == Spec /\ WF_vars(Next)

----------------------------------------------------------------------------
(* Vocabulary of the properties *)

BurnOps == {"Burn1", "Burn2", "Burn3"}

CaptionOps == BurnOps \cup {"mktemp", "copy"}

LaterStageOps == CaptionOps \cup {"transcribe", "thumb_primary", "thumb_fallback",
                                  "write_record"}

Logged(op, res) == \E i \in 1..Len(log) : log[i].op = op /\ log[i].res = res

Invoked(ops) == \E i \in 1..Len(log) : log[i].op \in ops

\* State Transformed was reached: create_vertical_clip returned True
Transformed == Logged("transform", "ok")

\* The caption stage (main, line 415-426) is over and main went on
CaptionStageOver ==
    \/ pc \in {"Captioned", "ThumbFallback", "Thumbnailed", "Complete"}
    \/ pc = "Aborted" /\ ended_in = "generate_thumbnail"

\* The transcription stage (main, line 410-413) is over
TranscribeStageOver ==
    Transformed /\ pc /= "Transformed"

----------------------------------------------------------------------------
(* C1: once the core transform has succeeded, the run always reaches        *)
(* Complete: it never ends in Aborted, and while it has not completed it   *)
(* can take a further step.                                                *)
C1_TransformedReachesComplete ==
    Transformed =>
        /\ pc /= "Aborted"
        /\ pc /= "Complete" => ENABLED Next

(* C2: the run is Aborted only by a failed acquisition or a failed core    *)
(* transform, never by the dependency check, the probe, the highlight      *)
(* selection, the transcription, the caption burning or the thumbnail.     *)
C2_AbortOnlyAcquireOrTransform ==
    pc = "Aborted" => ended_in \in {"download_video", "create_vertical_clip"}

(* C3: the styled attempt directly follows a failed plain attempt, the     *)
(* re-encode attempt directly follows failed plain and styled attempts, no *)
(* attempt follows a successful one, and once the stage has returned after *)
(* a successful attempt k the final clip is the file attempt k wrote.      *)
C3_ChainOrder ==
    \A i \in 1..Len(log) :
        /\ log[i].op = "Burn1" =>
              /\ i > 1 /\ log[i-1].op = "copy" /\ log[i-1].res = "ok"
        /\ log[i].op = "Burn2" =>
              /\ i > 1 /\ log[i-1].op = "Burn1" /\ log[i-1].res = "tool_error"
        /\ log[i].op = "Burn3" =>
              /\ i > 2
              /\ log[i-1].op = "Burn2" /\ log[i-1].res = "tool_error"
              /\ log[i-2].op = "Burn1" /\ log[i-2].res = "tool_error"
        /\ (log[i].op \in BurnOps /\ log[i].res = "ok") =>
              /\ \A j \in (i+1)..Len(log) : log[j].op \notin BurnOps
              /\ CaptionStageOver =>
                    /\ burn_ret = "True"
                    /\ final_path = log[i].dst
                    /\ \E k \in 1..3 : /\ log[i].op = BurnPc(k)
                                       /\ fs[final_path] = BurnContent(k)

C3_Witness ==
    /\ pc = "Complete"
    /\ Logged("Burn1", "tool_error")
    /\ Logged("Burn2", "ok")
    /\ record.final_clip = "final"
    /\ fs["final"] = "styled_captions"

\* All three strategies failed with a tool error
AllThreeFailed == Logged("Burn3", "tool_error")

(* C4: when a transcript exists and all three strategies fail, the stage   *)
(* returns False (degraded, not fatal), the final clip is the EncodedClip, *)
(* whose file is still what the core transform wrote, and the run still    *)
(* completes: it does not end in Aborted and can go on until Complete.     *)
C4_AllFailStillCompletes ==
    AllThreeFailed =>
        /\ Exists(fs, "srt")
        /\ burn_ret = "False"
        /\ final_path = "vertical"
        /\ fs["vertical"] = "clip"
        /\ pc /= "Aborted"
        /\ pc /= "Complete" => ENABLED Next

(* The part of C4 that concerns the caption stage itself: after three      *)
(* failures the stage returns False, main goes on with the EncodedClip as  *)
(* final clip, the run is not ended in burn_subtitles, and a record that   *)
(* is written names the EncodedClip as the final clip.                     *)
CaptionStageDegrades ==
    AllThreeFailed =>
        /\ burn_ret = "False"
        /\ final_path = "vertical"
        /\ fs["vertical"] = "clip"
        /\ ended_in /= "burn_subtitles"
        /\ CaptionStageOver
        /\ pc = "Complete" =>
              /\ record.final_clip = record.vertical_clip
              /\ exit_code = 0

(* C5 as stated: every caption-burn attempt writes to a location that no   *)
(* earlier attempt of the stage wrote to.                                  *)
C5_FreshOutputPerAttempt ==
    \A i, j \in 1..Len(log) :
        (i < j /\ log[i].op \in BurnOps /\ log[j].op \in BurnOps)
            => log[i].dst /= log[j].dst

(* C5 amended: all caption-burn attempts write to one location, the        *)
(* final-clip path, which is neither their input nor a path that any other *)
(* stage reads as input or writes; the artifacts of the earlier stages are *)
(* therefore unchanged during the chain, and a partially written file is   *)
(* never the final clip.                                                   *)
C5_SharedOutputApart ==
    /\ \A i \in 1..Len(log) :
          /\ log[i].op \in BurnOps =>
                /\ log[i].dst = "final"
                /\ log[i].dst /= log[i].src
          /\ log[i].op \notin BurnOps => log[i].dst /= "final"
          /\ log[i].op \in BurnOps =>
                \A j \in 1..i : log[j].src /= log[i].dst
    /\ Invoked(BurnOps) =>
          /\ fs["original"] = "source"
          /\ fs["vertical"] = "clip"
          /\ fs["srt"] \in {"srt", "partial"}
    /\ CaptionStageOver => fs[final_path] /= "partial"
    /\ record.written => fs[record.final_clip] /= "partial"

C5_Witness ==
    /\ Logged("Burn1", "tool_error")
    /\ Logged("Burn2", "tool_error")
    /\ Logged("Burn3", "ok")
    /\ fs["final"] = "no_captions"
    /\ pc = "Complete"

(* C6: whenever control is outside burn_subtitles (it returned, or it was  *)
(* left by an exception), the temporary caption-source file does not exist *)
C6_TmpSrtRemoved ==
    pc \notin {"Burn1", "Burn2", "Burn3"} => fs["tmp_srt"] = "absent"

(* C7: when no transcript file is present, the caption stage invokes no    *)
(* encode, creates no temporary file, and the final clip is the            *)
(* EncodedClip as the core transform wrote it.                             *)
C7_NoTranscriptNoEncode ==
    (final_path /= "unset" /\ ~Exists(fs, "srt")) =>
        /\ ~Invoked(CaptionOps)
        /\ fs["tmp_srt"] = "absent"
        /\ fs["final"] = "absent"
        /\ burn_ret = "not_called"
        /\ final_path = "vertical"
        /\ fs["vertical"] = "clip"
        /\ record.written => record.final_clip = "vertical"

C7_Witness ==
    /\ pc = "Complete"
    /\ ~Exists(fs, "srt")
    /\ record.final_clip = "vertical"
    /\ Logged("transcribe", "engine_error")

(* C8: whenever transcription failed (not run for want of the capability,  *)
(* or generate_subtitles returned False), no caption-burn attempt is made, *)
(* the final clip is the EncodedClip, and the record reports no transcript *)
C8_FailedTranscriptionSkipsCaptions ==
    (TranscribeStageOver /\ sub_ret /= "True") =>
        /\ ~Invoked(CaptionOps)
        /\ final_path \in {"unset", "vertical"}
        /\ record.written =>
              /\ record.subtitles = "None"
              /\ record.final_clip = "vertical"

\* The core-transform encode failed
TransformFailed ==
    \E i \in 1..Len(log) : log[i].op = "transform" /\ log[i].res /= "ok"

(* C9: if the core-transform encode fails the run is Aborted with a        *)
(* non-zero exit code, no later stage has run and no record is written;    *)
(* and a run that is Complete has exit code 0.                             *)
C9_TransformFailureAborts ==
    /\ TransformFailed =>
          /\ pc = "Aborted"
          /\ exit_code >= 1
          /\ ~Invoked(LaterStageOps)
          /\ ~record.written
          /\ \A p \in {"srt", "final", "thumbnail", "metadata", "tmp_srt"} :
                ~Exists(fs, p)
    /\ pc = "Complete" => exit_code = 0 /\ Transformed /\ record.written

C9_Witness ==
    /\ Logged("transform", "tool_error")
    /\ pc = "Aborted"
    /\ exit_code = 1
    /\ ended_in = "create_vertical_clip"

\* The total duration the selector was given by its probe
ProbedTotal ==
    IF Logged("probe_duration", "ok") THEN src_duration ELSE DefaultDuration

(* C10: for a requested duration >= the source duration, under every       *)
(* strategy, the selected window has start 0 and a duration equal to the   *)
(* source duration.                                                        *)
C10_LongRequestClamped ==
    (Invoked({"probe_duration"}) /\ req_duration >= ProbedTotal) =>
        /\ start_time2 = 0
        /\ duration = ProbedTotal

----------------------------------------------------------------------------
(* Highlight selection, continued *)

\* The highlight selector has returned (main, line 402)
WindowHandedOver == Invoked({"probe_duration"})

\* A signal-based strategy failed internally: the analysis capability is
\* missing (line 90), or the audio extraction or decoding failed (line 156)
SignalFailure ==
    \/ ~HAS_OPENCV
    \/ \E i \in 1..Len(log) : log[i].op = "extract_audio" /\ log[i].res /= "ok"

(* C11: for the signal-based strategies audio and face, after any internal *)
(* failure (capability absent, audio extraction failed) the selector has   *)
(* returned the uniform-midpoint window for the same total and requested   *)
(* duration.                                                               *)
C11_SignalFailureFallsBack ==
    (WindowHandedOver /\ method \in {"audio", "face"} /\ SignalFailure) =>
        /\ start_time2 = Midpoint2(ProbedTotal, req_duration)
        /\ duration = req_duration

(* C12: every window handed to the core transform has start >= 0,          *)
(* duration > 0 and start + duration <= source duration.                   *)
C12_WindowWithinSource ==
    WindowHandedOver =>
        /\ start_time2 >= 0
        /\ duration > 0
        /\ start_time2 + 2 * duration <= 2 * ProbedTotal

(* C13: with the uniform-midpoint strategy (any method name other than     *)
(* audio and face) the start is max(0, (total - requested) / 2) and the    *)
(* duration the requested one; 300 s and 60 s give start 120, duration 60. *)
C13_UniformMidpoint ==
    (WindowHandedOver /\ method = "motion") =>
        /\ start_time2 = Midpoint2(ProbedTotal, req_duration)
        /\ duration = req_duration
        /\ (ProbedTotal = 300 /\ req_duration = 60) =>
              (start_time2 = 2 * 120 /\ duration = 60)

(* The part of C13 that holds: when OpenCV is present the default branch   *)
(* (line 104-107) returns the midpoint window.                             *)
UniformMidpointWithOpenCV ==
    (WindowHandedOver /\ method = "motion" /\ HAS_OPENCV) =>
        /\ start_time2 = Midpoint2(ProbedTotal, req_duration)
        /\ duration = req_duration

(* C15: when both thumbnail extractions fail the run completes and the     *)
(* record has no thumbnail; the record names a thumbnail path only when an *)
(* extraction succeeded.                                                   *)
C15_ThumbnailAbsentRecorded ==
    /\ (Logged("thumb_fallback", "tool_error") \/ Logged("thumb_fallback", "fault")) =>
          /\ pc /= "Aborted"
          /\ pc /= "Complete" => ENABLED Next
    /\ record.written =>
          (record.thumbnail /= "None" => thumb_ret = "True")

(* C16: the fallback extraction is attempted exactly when the primary one  *)
(* failed, whatever the failure, and a successful fallback makes the stage *)
(* report a thumbnail.                                                     *)
C16_FallbackExactlyOnPrimaryFailure ==
    /\ \A i \in 1..Len(log) :
          (log[i].op = "thumb_primary" /\ log[i].res /= "ok") =>
              \/ pc = "ThumbFallback"
              \/ (i < Len(log) /\ log[i+1].op = "thumb_fallback")
    /\ \A i \in 1..Len(log) :
          log[i].op = "thumb_fallback" =>
              /\ i > 1 /\ log[i-1].op = "thumb_primary" /\ log[i-1].res /= "ok"
    /\ Logged("thumb_fallback", "ok") => thumb_ret = "True"

----------------------------------------------------------------------------
(* Order of the stages *)

ThumbOps == {"thumb_primary", "thumb_fallback"}

\* The stage of main to which an invocation belongs (main, line 395-449)
StageOf(op) ==
    CASE op = "download"                            -> 1
      [] op \in {"extract_audio", "probe_duration"} -> 2
      [] op = "transform"                           -> 3
      [] op = "transcribe"                          -> 4
      [] op \in CaptionOps                          -> 5
      [] op \in ThumbOps                            -> 6
      [] op = "write_record"                        -> 7

Count(op) == Cardinality({i \in 1..Len(log) : log[i].op = op})

(* C18: in a completed run the invocations are in the order acquire,       *)
(* highlight selection, core transform, transcription, caption stage,      *)
(* thumbnail stage, record; no invocation occurs twice and the stages that *)
(* are not optional occur once; each stage reads what the stage before it  *)
(* chose: the transform the download, transcription and caption chain the  *)
(* vertical clip, the thumbnail the clip the caption stage delivered.      *)
C18_StagesInOrder ==
    pc = "Complete" =>
        /\ \A i, j \in 1..Len(log) :
              i < j => StageOf(log[i].op) <= StageOf(log[j].op)
        /\ \A i, j \in 1..Len(log) : log[i].op = log[j].op => i = j
        /\ \A op \in {"download", "probe_duration", "transform",
                      "thumb_primary", "write_record"} : Count(op) = 1
        /\ Count("transcribe") = (IF HAS_WHISPER THEN 1 ELSE 0)
        /\ final_path \in {"vertical", "final"}
        /\ final_path = "final" <=> (\E k \in 1..3 : Logged(BurnPc(k), "ok"))
        /\ record.final_clip = final_path
        /\ \A i \in 1..Len(log) :
              /\ log[i].op = "transform" =>
                    (log[i].src = "original" /\ Logged("download", "ok"))
              /\ log[i].op = "transcribe" => log[i].src = "vertical"
              /\ log[i].op = "copy" =>
                    (log[i].src = "srt" /\ Invoked({"transcribe"}))
              /\ log[i].op \in BurnOps => log[i].src = "vertical"
              /\ log[i].op \in ThumbOps => log[i].src = final_path

C18_Witness ==
    /\ pc = "Complete"
    /\ Logged("extract_audio", "ok")
    /\ Logged("transcribe", "ok")
    /\ Logged("Burn1", "ok")
    /\ Logged("thumb_primary", "tool_error")
    /\ Logged("thumb_fallback", "ok")
    /\ record.final_clip = "final"

(* C19: the record is written at most once, exactly in the runs that       *)
(* complete, as the last step and after the thumbnail stage; never in an   *)
(* Aborted run; it carries the source locator, the window start and        *)
(* duration, the artifact paths, the timestamp and the quality.            *)
C19_RecordOnceAtEnd ==
    /\ Count("write_record") <= 1
    /\ record.written <=> Logged("write_record", "ok")
    /\ record.written <=> pc = "Complete"
    /\ record.written <=> Exists(fs, "metadata")
    /\ pc = "Aborted" => ~record.written
    /\ record.written =>
          /\ log[Len(log)].op = "write_record"
          /\ thumb_ret /= "not_called"
          /\ Len(log) > 1 /\ log[Len(log) - 1].op \in ThumbOps
          /\ record.original_url = "url"
          /\ record.clip_start2 = start_time2
          /\ record.clip_duration = duration
          /\ record.vertical_clip = "vertical"
          /\ record.final_clip = final_path
          /\ record.thumbnail = "thumbnail"
          /\ record.timestamp = "timestamp"
          /\ record.quality = "quality"

C19_Witness ==
    /\ pc = "Complete"
    /\ record.written
    /\ record.clip_duration = 60
    /\ record.clip_start2 = 2 * 120

----------------------------------------------------------------------------
(* Frame geometry of the core transform: the ffprobe of the dimensions and *)
(* the filter graph "scale=-2:1920,crop=1080:1920" applied to a source of  *)
(* in_w x in_h pixels.                                                     *)

TargetWidth == 1080

TargetHeight == 1920

DefaultWidth == 1920

DefaultHeight == 1080

SourceWidths == {480, 720, 1080, 1280, 1920, 3840}

SourceHeights == {360, 720, 1080, 1920, 2400}

\* create_vertical_clip, line 183-187: the probed dimensions, or the
\* default on any exception
ProbeDimensions(res, w, h) ==
    IF res = "ok" THEN <<w, h>> ELSE <<DefaultWidth, DefaultHeight>>

\* line 195, "scale=-2:{target_height}": the height becomes the target
\* height, the width keeps the aspect ratio, rounded to a multiple of 2.
\* The filter works on the real frame size, not on the probed one, which
\* create_vertical_clip never uses.
ScaleFilter(w, h) ==
    <<2 * ((TargetHeight * w + h) \div (2 * h)), TargetHeight>>

\* line 196, "crop={target_width}:{target_height}": a centred crop, which
\* ffmpeg refuses when the frame is smaller than the crop
CropFits(w, h) == w >= TargetWidth /\ h >= TargetHeight

\* The main variables while the geometry alone is followed
MainIdle ==
    /\ HAS_OPENCV = FALSE
    /\ HAS_WHISPER = FALSE
    /\ method = "audio"
    /\ req_duration = 60
    /\ src_duration = DefaultDuration
    /\ pc = "Idle"
    /\ fs = [p \in Paths |-> "absent"]
    /\ start_time2 = 0
    /\ duration = 0
    /\ final_path = "unset"
    /\ sub_ret = "not_called"
    /\ burn_ret = "not_called"
    /\ thumb_ret = "not_called"
    /\ record = NoRecord
    /\ exit_code = -1
    /\ ended_in = "none"
    /\ uncaught = FALSE
    /\ log = <<>>
    /\ segments = <<>>

mainvars == <<HAS_OPENCV, HAS_WHISPER, method, req_duration, src_duration, pc,
              fs, start_time2, duration, final_path, sub_ret, burn_ret,
              thumb_ret, record, exit_code, ended_in, uncaught, log, segments>>

FrameInit ==
    /\ MainIdle
    /\ conc = ConcIdle
    /\ probe = ProbeIdle
    /\ email = EmailIdle
    /\ \E w \in SourceWidths, h \in SourceHeights :
          frame = [stage |-> "start", in_w |-> w, in_h |-> h]

(* create_vertical_clip, line 173-187 *)
FrameProbe ==
    /\ frame.stage = "start"
    /\ \E res \in Outcomes :
          frame' = [stage |-> "probed", in_w |-> frame.in_w, in_h |-> frame.in_h,
                    probed |-> ProbeDimensions(res, frame.in_w, frame.in_h)]
    /\ UNCHANGED <<mainvars, conc, probe, email>>

(* create_vertical_clip, line 195 and 204: the scale filter *)
FrameScale ==
    /\ frame.stage = "probed"
    /\ frame' = [stage |-> "scaled", in_w |-> frame.in_w, in_h |-> frame.in_h,
                 probed |-> frame.probed,
                 scaled |-> ScaleFilter(frame.in_w, frame.in_h)]
    /\ UNCHANGED <<mainvars, conc, probe, email>>

(* create_vertical_clip, line 196, 204 and 213-219: the crop filter; the  *)
(* encode fails when the crop does not fit.                                *)
FrameCrop ==
    /\ frame.stage = "scaled"
    /\ frame' = [stage |-> IF CropFits(frame.scaled[1], frame.scaled[2])
                           THEN "encoded" ELSE "encode_failed",
                 in_w |-> frame.in_w, in_h |-> frame.in_h,
                 probed |-> frame.probed,
                 scaled |-> frame.scaled,
                 out |-> IF CropFits(frame.scaled[1], frame.scaled[2])
                         THEN <<TargetWidth, TargetHeight>> ELSE <<0, 0>>]
    /\ UNCHANGED <<mainvars, conc, probe, email>>

FrameNext == FrameProbe \/ FrameScale \/ FrameCrop

FrameSpec == FrameInit /\ [][FrameNext]_vars

(* C14: for every source width and height the scaled frame is at least     *)
(* 1080 wide and 1920 high, and the clip that comes out is exactly         *)
(* 1080 x 1920.                                                            *)
C14_FillsTargetFrame ==
    /\ frame.stage \in {"scaled", "encoded", "encode_failed"} =>
          /\ frame.scaled[1] >= TargetWidth
          /\ frame.scaled[2] >= TargetHeight
    /\ frame.stage /= "encode_failed"
    /\ frame.stage = "encoded" => frame.out = <<TargetWidth, TargetHeight>>

(* The part of C14 that holds: a source at least as wide as 9:16 is scaled *)
(* to cover the target frame and comes out as exactly 1080 x 1920.         *)
WideSourceFillsTargetFrame ==
    (frame.stage \in {"encoded", "encode_failed"}
        /\ 16 * frame.in_w >= 9 * frame.in_h) =>
            /\ frame.scaled[1] >= TargetWidth
            /\ frame.scaled[2] = TargetHeight
            /\ frame.stage = "encoded"
            /\ frame.out = <<TargetWidth, TargetHeight>>

----------------------------------------------------------------------------
(* Transcript ordering *)

NonDecreasing(seq) ==
    \A i \in 1..(Len(seq) - 1) : seq[i] <= seq[i + 1]

(* C17: a transcript whose segment start times are not non-decreasing is   *)
(* treated as a transcription failure: generate_subtitles reports failure, *)
(* no transcript file is kept, no caption-burn attempt uses it, and the    *)
(* run is not ended by it.                                                 *)
C17_UnorderedTranscriptDiscarded ==
    (TranscribeStageOver /\ ~NonDecreasing(segments)) =>
        /\ sub_ret = "False"
        /\ ~Exists(fs, "srt")
        /\ ~Invoked(CaptionOps)
        /\ ended_in /= "generate_subtitles"

----------------------------------------------------------------------------
(* Two runs of main side by side *)

Runs == {1, 2}

\* --output-dir of a run, line 380 and 390
Dirs == {"out_a", "out_b"}

\* The run timestamp has a resolution of one second, line 393: two runs may
\* draw the same one
MaxTimestamp == 2
Timestamps == 1..MaxTimestamp

\* The directory of the temporary files, line 128 and 271
TmpDir == "/tmp"

\* The random part of a temporary file's name
MaxTmpNames == 2
TmpNames == 1..MaxTmpNames

\* download_video, line 61: the download has no timestamp in its name
OriginalPath(dir) == <<dir, "original", 0>>

\* main, line 405, 410, 416, 429 and 446: the stamped files of a run
StampedPath(dir, name, ts) == <<dir, name, ts>>

\* line 128 and 271: a name ends in its suffix, so a .wav never meets a .srt
TmpPath(suffix, k) == <<TmpDir, suffix, k>>

ConcPaths ==
    {OriginalPath(d) : d \in Dirs}
    \cup {StampedPath(d, n, t) :
            d \in Dirs,
            n \in {"vertical", "subtitles", "final", "thumbnail", "metadata"},
            t \in Timestamps}
    \cup {TmpPath(x, k) : x \in {".wav", ".srt"}, k \in TmpNames}

\* A name drawn without looking at the files that exist
NamedTemporaryFile_NotExclusive(c, suffix) == TmpNames

\* tempfile.NamedTemporaryFile, line 128 and 271: the file is created
\* exclusively, under a name no existing file has
NamedTemporaryFile(c, suffix) ==
    {k \in TmpNames : c.files[TmpPath(suffix, k)] = 0}

\* Run r creates, writes or deletes the file at path p; `after` is the run
\* that holds the file afterwards, 0 when it is gone.  A clash is an
\* operation on a file another run holds, a stray one an operation outside
\* the run's directory and the temporary files.
Touch(c, r, p, after) ==
    [c EXCEPT !.files[p] = after,
              !.clashes = IF c.files[p] \in {0, r}
                          THEN @ ELSE @ \cup {<<r, p, c.files[p]>>},
              !.strays = IF p[1] \in {c.dir[r], TmpDir}
                         THEN @ ELSE @ \cup {<<r, p>>}]

\* What a subprocess or a file operation of a concurrent run comes to
ConcOutcomes == {"ok", "failed"}

ConcInit ==
    /\ MainIdle
    /\ frame = FrameIdle
    /\ probe = ProbeIdle
    /\ email = EmailIdle
    /\ \E d1 \in Dirs, d2 \in Dirs, t1 \in Timestamps, t2 \in Timestamps :
          /\ d1 /= d2
          /\ conc = [stage |-> "running",
                     dir |-> <<d1, d2>>,
                     ts |-> <<t1, t2>>,
                     at |-> <<"start", "start">>,
                     wav |-> <<0, 0>>,
                     srt |-> <<0, 0>>,
                     files |-> [p \in ConcPaths |-> 0],
                     clashes |-> {},
                     strays |-> {}]

(* main, line 396-399, and download_video, line 49-84 *)
ConcDownload(r) ==
    /\ conc.stage = "running"
    /\ conc.at[r] = "start"
    /\ \E res \in ConcOutcomes :
          conc' = [Touch(conc, r, OriginalPath(conc.dir[r]), r) EXCEPT
                      !.at[r] = IF res = "ok" THEN "detect" ELSE "done"]
    /\ UNCHANGED <<mainvars, frame, probe, email>>

(* detect_highlights, line 86-107, and detect_audio_highlights, line      *)
(* 128-129: the audio method creates its temporary .wav                    *)
ConcMkWav(r) ==
    /\ conc.stage = "running"
    /\ conc.at[r] = "detect"
    /\ \/ conc' = [conc EXCEPT !.at[r] = "transform"]
       \/ \E k \in NamedTemporaryFile(conc, ".wav") :
             conc' = [Touch(conc, r, TmpPath(".wav", k), r) EXCEPT
                         !.wav[r] = k, !.at[r] = "extract"]
    /\ UNCHANGED <<mainvars, frame, probe, email>>

(* detect_audio_highlights, line 131-146 and 155-160: ffmpeg writes the    *)
(* .wav; after a failure the file stays                                    *)
ConcExtractAudio(r) ==
    /\ conc.stage = "running"
    /\ conc.at[r] = "extract"
    /\ \E res \in ConcOutcomes :
          conc' = [Touch(conc, r, TmpPath(".wav", conc.wav[r]), r) EXCEPT
                      !.at[r] = IF res = "ok" THEN "unlink_wav" ELSE "transform"]
    /\ UNCHANGED <<mainvars, frame, probe, email>>

(* detect_audio_highlights, line 149 *)
ConcUnlinkWav(r) ==
    /\ conc.stage = "running"
    /\ conc.at[r] = "unlink_wav"
    /\ conc' = [Touch(conc, r, TmpPath(".wav", conc.wav[r]), 0) EXCEPT
                   !.wav[r] = 0, !.at[r] = "transform"]
    /\ UNCHANGED <<mainvars, frame, probe, email>>

(* main, line 405-408, and create_vertical_clip, line 169-219 *)
ConcTransform(r) ==
    /\ conc.stage = "running"
    /\ conc.at[r] = "transform"
    /\ \E res \in ConcOutcomes :
          conc' = [Touch(conc, r,
                         StampedPath(conc.dir[r], "vertical", conc.ts[r]), r)
                     EXCEPT
                      !.at[r] = IF res = "ok" THEN "transcribe" ELSE "done"]
    /\ UNCHANGED <<mainvars, frame, probe, email>>

(* main, line 411-417, and generate_subtitles, line 221-252: with a       *)
(* transcript file the captions are burned, without one they are skipped   *)
ConcTranscribe(r) ==
    /\ conc.stage = "running"
    /\ conc.at[r] = "transcribe"
    /\ \/ conc' = [conc EXCEPT !.at[r] = "thumbnail"]
       \/ conc' = [Touch(conc, r,
                         StampedPath(conc.dir[r], "subtitles", conc.ts[r]), r)
                     EXCEPT !.at[r] = "mk_srt"]
    /\ UNCHANGED <<mainvars, frame, probe, email>>

(* burn_subtitles, line 271-272 *)
ConcMkSrt(r) ==
    /\ conc.stage = "running"
    /\ conc.at[r] = "mk_srt"
    /\ \E k \in NamedTemporaryFile(conc, ".srt") :
          conc' = [Touch(conc, r, TmpPath(".srt", k), r) EXCEPT
                      !.srt[r] = k, !.at[r] = "copy"]
    /\ UNCHANGED <<mainvars, frame, probe, email>>

(* burn_subtitles, line 273: a failed copy ends the run, the file stays *)
ConcCopySrt(r) ==
    /\ conc.stage = "running"
    /\ conc.at[r] = "copy"
    /\ \E res \in ConcOutcomes :
          conc' = [Touch(conc, r, TmpPath(".srt", conc.srt[r]), r) EXCEPT
                      !.at[r] = IF res = "ok" THEN "burn" ELSE "done"]
    /\ UNCHANGED <<mainvars, frame, probe, email>>

(* burn_subtitles, line 280-331: every attempt writes the one final path;  *)
(* an exception other than CalledProcessError ends the run                 *)
ConcBurn(r) ==
    /\ conc.stage = "running"
    /\ conc.at[r] = "burn"
    /\ \E res \in ConcOutcomes :
          conc' = [Touch(conc, r,
                         StampedPath(conc.dir[r], "final", conc.ts[r]), r)
                     EXCEPT
                      !.at[r] = IF res = "ok" THEN "unlink_srt" ELSE "done"]
    /\ UNCHANGED <<mainvars, frame, probe, email>>

(* burn_subtitles, line 291, 314, 329 and 334 *)
ConcUnlinkSrt(r) ==
    /\ conc.stage = "running"
    /\ conc.at[r] = "unlink_srt"
    /\ conc' = [Touch(conc, r, TmpPath(".srt", conc.srt[r]), 0) EXCEPT
                   !.srt[r] = 0, !.at[r] = "thumbnail"]
    /\ UNCHANGED <<mainvars, frame, probe, email>>

(* main, line 429-430, and generate_thumbnail, line 339-372 *)
ConcThumbnail(r) ==
    /\ conc.stage = "running"
    /\ conc.at[r] = "thumbnail"
    /\ \E res \in ConcOutcomes :
          conc' = [Touch(conc, r,
                         StampedPath(conc.dir[r], "thumbnail", conc.ts[r]), r)
                     EXCEPT
                      !.at[r] = IF res = "ok" THEN "record" ELSE "done"]
    /\ UNCHANGED <<mainvars, frame, probe, email>>

(* main, line 447-449 *)
ConcWriteRecord(r) ==
    /\ conc.stage = "running"
    /\ conc.at[r] = "record"
    /\ conc' = [Touch(conc, r,
                      StampedPath(conc.dir[r], "metadata", conc.ts[r]), r)
                  EXCEPT !.at[r] = "done"]
    /\ UNCHANGED <<mainvars, frame, probe, email>>

ConcNext ==
    \E r \in Runs :
        \/ ConcDownload(r)
        \/ ConcMkWav(r)
        \/ ConcExtractAudio(r)
        \/ ConcUnlinkWav(r)
        \/ ConcTransform(r)
        \/ ConcTranscribe(r)
        \/ ConcMkSrt(r)
        \/ ConcCopySrt(r)
        \/ ConcBurn(r)
        \/ ConcUnlinkSrt(r)
        \/ ConcThumbnail(r)
        \/ ConcWriteRecord(r)

ConcSpec == ConcInit /\ [][ConcNext]_vars

(* C20: two runs with distinct output directories, under every             *)
(* interleaving of their stages, never write, overwrite or delete a file   *)
(* the other run holds, and every file a run holds lies in its own output  *)
(* directory or is a temporary file of its own.                            *)
C20_RunsShareNoFile ==
    conc.stage = "running" =>
        /\ conc.clashes = {}
        /\ conc.strays = {}
        /\ \A p \in ConcPaths : \A r \in Runs :
              conc.files[p] = r =>
                  \/ p[1] = conc.dir[r]
                  \/ p = TmpPath(".wav", conc.wav[r])
                  \/ p = TmpPath(".srt", conc.srt[r])

\* Both runs carry the same timestamp and are in the middle of the caption
\* stage at once, each with a temporary .wav left behind and a temporary
\* .srt of its own
C20_Witness ==
    /\ conc.stage = "running"
    /\ conc.ts[1] = conc.ts[2]
    /\ conc.at = <<"burn", "burn">>
    /\ \A r \in Runs :
          /\ conc.wav[r] /= 0 /\ conc.files[TmpPath(".wav", conc.wav[r])] = r
          /\ conc.srt[r] /= 0 /\ conc.files[TmpPath(".srt", conc.srt[r])] = r

----------------------------------------------------------------------------
(* Artifacts and their inputs *)

(* C21: no invocation writes the path it reads; the downloaded source is   *)
(* written by the download only and is unchanged from then on; the         *)
(* vertical clip is written by the core transform only and is unchanged    *)
(* during transcription, caption burning and thumbnail extraction.         *)
C21_InputsNeverWritten ==
    /\ \A i \in 1..Len(log) :
          /\ log[i].dst /= log[i].src
          /\ log[i].dst = "original" => log[i].op = "download"
          /\ log[i].dst = "vertical" => log[i].op = "transform"
          /\ \A j \in 1..(i - 1) : log[j].src /= log[i].dst
    /\ (Logged("download", "ok") /\ ended_in /= "download_video") =>
          fs["original"] = "source"
    /\ Transformed => fs["vertical"] = "clip"

C21_Witness ==
    /\ pc = "Complete"
    /\ Logged("transcribe", "ok")
    /\ Logged("Burn2", "tool_error")
    /\ Logged("Burn3", "ok")
    /\ Logged("thumb_fallback", "ok")
    /\ fs["original"] = "source"
    /\ fs["vertical"] = "clip"
    /\ fs["final"] = "no_captions"

\* Some caption-burn strategy succeeded
SomeStrategySucceeded == \E k \in 1..3 : Logged(BurnPc(k), "ok")

\* What a successful encode writes in full
FullyWritten == {"clip", "plain_captions", "styled_captions", "no_captions"}

(* C24: in a completed run the recorded final clip differs from the        *)
(* recorded vertical clip exactly when one of the three strategies         *)
(* succeeded, otherwise the two are equal; in both cases the recorded      *)
(* final clip is a file that a successful encode wrote in full.            *)
C24_FinalClipIffStrategySucceeded ==
    pc = "Complete" =>
        /\ record.final_clip /= record.vertical_clip <=> SomeStrategySucceeded
        /\ ~SomeStrategySucceeded => record.final_clip = record.vertical_clip
        /\ fs[record.final_clip] \in FullyWritten
        /\ \E i \in 1..Len(log) :
              /\ log[i].dst = record.final_clip
              /\ log[i].res = "ok"
              /\ \A j \in (i + 1)..Len(log) : log[j].dst /= record.final_clip

\* A completed run whose three strategies all failed and left a part of a
\* file at the final path: the record names the vertical clip
C24_Witness ==
    /\ pc = "Complete"
    /\ AllThreeFailed
    /\ fs["final"] = "partial"
    /\ record.final_clip = "vertical"
    /\ record.vertical_clip = "vertical"

(* C25: every caption-burn attempt reads the vertical clip, never a path   *)
(* that an earlier attempt wrote, and one caption stage makes at most      *)
(* three encode invocations, each strategy at most once.                   *)
C25_AttemptsReadEncodedClip ==
    /\ \A i \in 1..Len(log) :
          log[i].op \in BurnOps =>
              /\ log[i].src = "vertical"
              /\ \A j \in 1..(i - 1) :
                    log[j].op \in BurnOps => log[j].dst /= log[i].src
    /\ Cardinality({i \in 1..Len(log) : log[i].op \in BurnOps}) <= 3
    /\ \A op \in BurnOps : Count(op) <= 1

\* All three attempts were made, each on the vertical clip
C25_Witness ==
    /\ Logged("Burn1", "tool_error")
    /\ Logged("Burn2", "tool_error")
    /\ Invoked({"Burn3"})
    /\ \A i \in 1..Len(log) : log[i].op \in BurnOps => log[i].src = "vertical"

----------------------------------------------------------------------------
(* Highlight strategies *)

\* The audio strategy was run and has returned
AudioStrategyReturned == Invoked({"extract_audio"})

(* C26: when the audio strategy has returned, the temporary audio file it  *)
(* created no longer exists, after a successful analysis as well as after  *)
(* a failed audio extraction or decoding.                                  *)
C26_TmpWavRemoved ==
    AudioStrategyReturned => ~Exists(fs, "tmp_wav")

(* The part of C26 that holds: after a successful extraction and decoding  *)
(* the temporary audio file is gone.                                       *)
TmpWavRemovedOnSuccess ==
    Logged("extract_audio", "ok") => ~Exists(fs, "tmp_wav")

(* C27: with OpenCV available the window handed over is the one every      *)
(* other strategy name returns for the same probed total and requested     *)
(* duration.                                                               *)
C27_WindowIndependentOfStrategy ==
    (WindowHandedOver /\ HAS_OPENCV) =>
        \A m \in Methods :
            detect_highlights(HAS_OPENCV, m, req_duration, ProbedTotal)
                = <<start_time2, duration>>

\* The face strategy has chosen a window that does not start at 0
C27_Witness ==
    /\ WindowHandedOver
    /\ HAS_OPENCV
    /\ method = "face"
    /\ start_time2 > 0
    /\ duration = req_duration

----------------------------------------------------------------------------
(* Degraded stages in the terminal output *)

\* main, line 433-461: the record, and with it the printed summary, of the
\* run on the same source and request in which no stage degraded
CleanRecord ==
    [written       |-> TRUE,
     original_url  |-> "url",
     timestamp     |-> "timestamp",
     quality       |-> "quality",
     clip_start2   |-> Midpoint2(src_duration, req_duration),
     clip_duration |-> req_duration,
     vertical_clip |-> "vertical",
     final_clip    |-> "final",
     thumbnail     |-> "thumbnail",
     subtitles     |-> "srt"]

\* generate_subtitles did not deliver a transcript (line 221-252, 411)
TranscriptUnavailable == ~Logged("transcribe", "ok")

\* No attempt burned captions into the clip: all failed, the third one
\* re-encoded without captions, or the chain was not entered
CaptionsNotRendered == ~(Logged("Burn1", "ok") \/ Logged("Burn2", "ok"))

\* Both thumbnail extractions failed (generate_thumbnail, line 371-372)
ThumbnailOmitted == thumb_ret = "False"

(* C23: in a completed run what main writes at the end tells each degraded *)
(* stage from the outcome without degradation: after a highlight fallback, *)
(* an unavailable transcript, captions that were not rendered or an        *)
(* omitted thumbnail the record differs from the one of the clean run.     *)
C23_DegradedStagesIdentified ==
    pc = "Complete" =>
        /\ SignalFailure => record /= CleanRecord
        /\ TranscriptUnavailable => record /= CleanRecord
        /\ CaptionsNotRendered => record /= CleanRecord
        /\ ThumbnailOmitted => record /= CleanRecord

(* The degradations that the record does show: a missing transcript file   *)
(* (subtitles is None) and three failed strategies (the final clip is the  *)
(* vertical clip).                                                         *)
MissingTranscriptAndFailedChainShown ==
    (pc = "Complete" /\ (~Exists(fs, "srt") \/ AllThreeFailed)) =>
        record /= CleanRecord

\* The clean run: nothing degraded, and the record is CleanRecord
CleanRunCompletes ==
    /\ pc = "Complete"
    /\ ~SignalFailure /\ ~TranscriptUnavailable
    /\ ~CaptionsNotRendered /\ ~ThumbnailOmitted
    /\ Logged("probe_duration", "ok")
    /\ record = CleanRecord

----------------------------------------------------------------------------
(* The probes: get_video_duration, line 109-123, and the ffprobe of the    *)
(* dimensions in create_vertical_clip, line 173-187                        *)

\* What lies at the path that is probed
ProbedFiles == {"source", "partial", "absent"}

\* What an ffprobe call and the parsing of its output come to: "unparsable"
\* is a zero exit status with an output that float() (line 121) or
\* map(int, ...) (line 185) rejects.  A missing file is never probed with
\* success.
ProbeResults(content) ==
    IF content = "absent" THEN {"tool_error", "fault"}
    ELSE {"ok", "tool_error", "fault", "unparsable"}

\* Mutant: only subprocess.CalledProcessError is caught
ProbeCatches_OnlyToolError(res) == res = "tool_error"

\* line 122 and 186, "except:" without a class: every exception is caught
ProbeCatches(res) == TRUE

ProbeInit ==
    /\ HAS_OPENCV = FALSE
    /\ HAS_WHISPER = FALSE
    /\ method = "audio"
    /\ req_duration = 60
    /\ src_duration \in SourceDurations
    /\ pc = "Idle"
    /\ \E c \in ProbedFiles : fs = [p \in Paths |-> IF p = "original" THEN c ELSE "absent"]
    /\ start_time2 = 0
    /\ duration = 0
    /\ final_path = "unset"
    /\ sub_ret = "not_called"
    /\ burn_ret = "not_called"
    /\ thumb_ret = "not_called"
    /\ record = NoRecord
    /\ exit_code = -1
    /\ ended_in = "none"
    /\ uncaught = FALSE
    /\ log = <<>>
    /\ segments = <<>>
    /\ frame = FrameIdle
    /\ conc = ConcIdle
    /\ email = EmailIdle
    /\ \E w \in SourceWidths, h \in SourceHeights :
          probe = [stage |-> "start", file |-> fs["original"],
                   in_w |-> w, in_h |-> h,
                   duration_res |-> "none", total |-> 0,
                   dims_res |-> "none", dims |-> <<0, 0>>]

(* get_video_duration, line 109-123 *)
ProbeDuration ==
    /\ probe.stage = "start"
    /\ \E res \in ProbeResults(fs["original"]) :
          probe' = IF res = "ok" \/ ProbeCatches(res)
                   THEN [probe EXCEPT !.stage = "duration_returned",
                                      !.duration_res = res,
                                      !.total = get_video_duration(res)]
                   ELSE [probe EXCEPT !.stage = "raised",
                                      !.duration_res = res]
    /\ UNCHANGED <<mainvars, frame, conc, email>>

(* create_vertical_clip, line 173-187 *)
ProbeDims ==
    /\ probe.stage = "duration_returned"
    /\ \E res \in ProbeResults(fs["original"]) :
          probe' = IF res = "ok" \/ ProbeCatches(res)
                   THEN [probe EXCEPT !.stage = "dimensions_returned",
                                      !.dims_res = res,
                                      !.dims = ProbeDimensions(res, probe.in_w,
                                                               probe.in_h)]
                   ELSE [probe EXCEPT !.stage = "raised",
                                      !.dims_res = res]
    /\ UNCHANGED <<mainvars, frame, conc, email>>

ProbeNext == ProbeDuration \/ ProbeDims

ProbeSpec == ProbeInit /\ [][ProbeNext]_vars

(* C22: neither probe fails outward.  After every failure (missing file,   *)
(* tool error, any other exception, unparsable output) the duration probe  *)
(* has returned 300 and the dimension probe 1920 x 1080; after a success   *)
(* they return what was probed; the numbers are positive; no file is       *)
(* written and the probed file is left as it was.                          *)
C22_ProbesFallBack ==
    /\ probe.stage /= "raised"
    /\ probe.stage \in {"duration_returned", "dimensions_returned"} =>
          /\ probe.total > 0
          /\ probe.duration_res = "ok" => probe.total = src_duration
          /\ probe.duration_res /= "ok" => probe.total = DefaultDuration
    /\ probe.stage = "dimensions_returned" =>
          /\ probe.dims[1] > 0 /\ probe.dims[2] > 0
          /\ probe.dims_res = "ok" => probe.dims = <<probe.in_w, probe.in_h>>
          /\ probe.dims_res /= "ok" => probe.dims = <<DefaultWidth, DefaultHeight>>
    /\ probe.stage /= "idle" =>
          /\ fs["original"] = probe.file
          /\ \A p \in Paths \ {"original"} : ~Exists(fs, p)

\* The output of the duration probe could not be parsed and the dimension
\* probe could not be run, on a source that is neither 300 s long nor
\* 1920 x 1080: both fallbacks were returned
C22_Witness ==
    /\ probe.stage = "dimensions_returned"
    /\ probe.duration_res = "unparsable"
    /\ probe.dims_res = "fault"
    /\ src_duration /= DefaultDuration
    /\ probe.total = DefaultDuration
    /\ <<probe.in_w, probe.in_h>> /= <<DefaultWidth, DefaultHeight>>
    /\ probe.dims = <<DefaultWidth, DefaultHeight>>

----------------------------------------------------------------------------
(* skills/email-automation/classify.py: EmailClassifier.classify_email.    *)
(* A text is the set of the phrases it contains, already in lower case; a  *)
(* sender is the sequence of its parts around "@".                         *)

\* EmailClassifier.__init__, line 25-44
work_domains ==
    {"github.com", "gitlab.com", "bitbucket.org", "slack.com",
     "teams.microsoft.com", "zoom.us", "atlassian.com", "jira.com",
     "confluence.com"}

financial_domains ==
    {"paypal.com", "stripe.com", "square.com", "bank", "credit", "invoice",
     "billing"}

social_domains ==
    {"facebook.com", "twitter.com", "linkedin.com", "instagram.com",
     "tiktok.com", "youtube.com"}

newsletter_domains ==
    {"substack.com", "mailchimp.com", "constantcontact.com", "newsletter",
     "digest", "weekly", "daily"}

\* classify_email, line 57-59
urgent_keywords == {"urgent", "asap", "immediate", "critical", "emergency"}

meeting_keywords ==
    {"meeting", "call", "zoom", "calendar", "invite", "appointment"}

action_keywords ==
    {"action required", "please review", "approval needed", "response needed"}

\* _is_spam_or_promotional, line 132-136
spam_indicators ==
    {"unsubscribe", "promotional", "offer", "deal", "sale", "discount",
     "free", "winner", "congratulations", "claim", "limited time", "act now",
     "click here", "buy now", "special offer"}

\* _is_financial, line 153-157
financial_keywords ==
    {"invoice", "payment", "bill", "receipt", "transaction", "bank", "credit",
     "debit", "paypal", "stripe", "charge", "refund", "subscription",
     "renewal", "statement"}

\* _is_work_related, line 167-170
work_keywords ==
    {"project", "meeting", "deadline", "review", "approval", "team", "client",
     "proposal", "contract", "report"}

\* _is_newsletter, line 180-183
newsletter_keywords ==
    {"newsletter", "digest", "weekly", "daily", "update", "roundup",
     "summary", "edition", "issue"}

\* _is_social, line 193-196
social_keywords ==
    {"notification", "mentioned", "tagged", "liked", "commented", "followed",
     "friend request", "message", "post"}

\* The phrases a subject and a content are made of
SubjectPhrases ==
    {"special offer", "free", "invoice", "meeting", "weekly", "notification",
     "urgent", "please review", "hello"}

ContentPhrases == {"unsubscribe", "please review", "sale"}

\* The largest number of phrases in one text
MaxPhrases == 2

Texts(phrases) == {t \in SUBSET phrases : Cardinality(t) <= MaxPhrases}

\* The senders: one without "@", the others with the domain after it
Senders ==
    {<<"alice">>, <<"bob", "example.com">>, <<"pay", "paypal.com">>,
     <<"info", "mybank.com">>, <<"noreply", "github.com">>,
     <<"list", "news.substack.com">>, <<"notify", "facebook.com">>}

\* Number of upper-case characters and length of the subject as written
SubjectShapes == {<<0, 10>>, <<3, 10>>, <<4, 10>>}

\* The keywords and patterns that are substrings of a phrase or domain
Substrings(str) ==
    CASE str = "special offer"     -> {"special offer", "offer"}
      [] str = "please review"     -> {"please review", "review"}
      [] str = "mybank.com"        -> {"bank"}
      [] str = "news.substack.com" -> {"substack.com"}
      [] OTHER                     -> {str}

\* "keyword in text", line 62-64, 143, 146
In(keyword, text) == \E ph \in text : keyword \in Substrings(ph)

\* "pattern in domain", line 163, 176, 189, 202
InDomain(pattern, domain) == pattern \in Substrings(domain)

\* _extract_domain, line 124-129
_extract_domain(sender) ==
    IF Len(sender) >= 2 THEN sender[2] ELSE ""

\* _is_spam_or_promotional, line 130-149
_is_spam_or_promotional(e) ==
    LET spam_count == Cardinality({i \in spam_indicators :
                                      In(i, e.subject) \/ In(i, e.content)})
        has_unsubscribe == In("unsubscribe", e.content)
        has_excessive_caps == 10 * e.upper > 3 * e.length
    IN  spam_count >= 2 \/ has_unsubscribe \/ has_excessive_caps

\* _is_financial, line 151-163
_is_financial(e) ==
    \/ \E k \in financial_keywords : In(k, e.subject)
    \/ \E d \in financial_domains : InDomain(d, _extract_domain(e.sender))

\* _is_work_related, line 165-176
_is_work_related(e) ==
    \/ \E k \in work_keywords : In(k, e.subject)
    \/ \E d \in work_domains : InDomain(d, _extract_domain(e.sender))

\* _is_newsletter, line 178-189
_is_newsletter(e) ==
    \/ \E k \in newsletter_keywords : In(k, e.subject)
    \/ \E d \in newsletter_domains : InDomain(d, _extract_domain(e.sender))

\* _is_social, line 191-202
_is_social(e) ==
    \/ \E k \in social_keywords : In(k, e.subject)
    \/ \E d \in social_domains : InDomain(d, _extract_domain(e.sender))

\* EmailClassification, line 13-19; the confidence in percent
EmailClassification(category, priority, action_required, confidence) ==
    [category |-> category, priority |-> priority,
     action_required |-> action_required, confidence |-> confidence]

\* Mutant: the work predicate is asked before the financial one
classify_email_WorkFirst(e) ==
    LET is_urgent    == \E k \in urgent_keywords : In(k, e.subject)
        has_meeting  == \E k \in meeting_keywords : In(k, e.subject)
        needs_action == \E k \in action_keywords :
                            In(k, e.subject) \/ In(k, e.content)
    IN  IF _is_spam_or_promotional(e)
        THEN EmailClassification("spam_promotional", "low", FALSE, 90)
        ELSE IF _is_work_related(e)
        THEN EmailClassification("work",
                 IF is_urgent \/ needs_action THEN "high" ELSE "medium",
                 needs_action \/ has_meeting, 80)
        ELSE IF _is_financial(e)
        THEN EmailClassification("financial",
                 IF needs_action THEN "high" ELSE "medium", needs_action, 85)
        ELSE IF _is_newsletter(e)
        THEN EmailClassification("newsletter", "low", FALSE, 75)
        ELSE IF _is_social(e)
        THEN EmailClassification("social", "low", FALSE, 70)
        ELSE EmailClassification("personal",
                 IF is_urgent THEN "high" ELSE "medium", needs_action, 60)

\* classify_email, line 46-122
classify_email(e) ==
    LET is_urgent    == \E k \in urgent_keywords : In(k, e.subject)
        has_meeting  == \E k \in meeting_keywords : In(k, e.subject)
        needs_action == \E k \in action_keywords :
                            In(k, e.subject) \/ In(k, e.content)
    IN  IF _is_spam_or_promotional(e)
        THEN EmailClassification("spam_promotional", "low", FALSE, 90)
        ELSE IF _is_financial(e)
        THEN EmailClassification("financial",
                 IF needs_action THEN "high" ELSE "medium", needs_action, 85)
        ELSE IF _is_work_related(e)
        THEN EmailClassification("work",
                 IF is_urgent \/ needs_action THEN "high" ELSE "medium",
                 needs_action \/ has_meeting, 80)
        ELSE IF _is_newsletter(e)
        THEN EmailClassification("newsletter", "low", FALSE, 75)
        ELSE IF _is_social(e)
        THEN EmailClassification("social", "low", FALSE, 70)
        ELSE EmailClassification("personal",
                 IF is_urgent THEN "high" ELSE "medium", needs_action, 60)

NoClassification == EmailClassification("none", "none", FALSE, 0)

EmailInit ==
    /\ MainIdle
    /\ frame = FrameIdle
    /\ conc = ConcIdle
    /\ probe = ProbeIdle
    /\ \E subject \in Texts(SubjectPhrases), content \in Texts(ContentPhrases),
          sender \in Senders, shape \in SubjectShapes :
          email = [stage |-> "received", subject |-> subject,
                   content |-> content, sender |-> sender,
                   upper |-> shape[1], length |-> shape[2],
                   result |-> NoClassification]

(* main of classify.py, line 216-217: the one call of classify_email *)
ClassifyEmail ==
    /\ email.stage = "received"
    /\ email' = [email EXCEPT !.stage = "classified",
                              !.result = classify_email(email)]
    /\ UNCHANGED <<mainvars, frame, conc, probe>>

EmailNext == ClassifyEmail

EmailSpec == EmailInit /\ [][EmailNext]_vars

\* The categories in the order of their precedence
Precedence ==
    <<"spam_promotional", "financial", "work", "newsletter", "social",
      "personal">>

\* Whether the predicate of the i-th category holds; the last category has
\* none
Matches(i, e) ==
    CASE i = 1 -> _is_spam_or_promotional(e)
      [] i = 2 -> _is_financial(e)
      [] i = 3 -> _is_work_related(e)
      [] i = 4 -> _is_newsletter(e)
      [] i = 5 -> _is_social(e)

(* C28: the category is one of spam_promotional, financial, work,          *)
(* newsletter, social, personal; it is the first one in this order whose   *)
(* predicate the e-mail matches, so an e-mail matching an earlier          *)
(* predicate never gets a later category; personal is given exactly when   *)
(* no predicate matches; spam_promotional, newsletter and social results   *)
(* have priority low and no action required.                               *)
C28_FixedPrecedence ==
    email.stage = "classified" =>
        LET r == email.result
        IN  /\ \E i \in 1..6 : r.category = Precedence[i]
            /\ \A i \in 1..5 :
                  Matches(i, email) =>
                      \A j \in (i + 1)..6 : r.category /= Precedence[j]
            /\ \A i \in 1..5 :
                  r.category = Precedence[i] => Matches(i, email)
            /\ r.category = "personal" <=>
                  \A i \in 1..5 : ~Matches(i, email)
            /\ r.category \in {"spam_promotional", "newsletter", "social"} =>
                  (r.priority = "low" /\ ~r.action_required)

\* An e-mail that matches the financial, the work and the social predicate
\* and asks for action is classified as financial
C28_Witness ==
    /\ email.stage = "classified"
    /\ ~_is_spam_or_promotional(email)
    /\ _is_financial(email)
    /\ _is_work_related(email)
    /\ _is_social(email)
    /\ email.result.category = "financial"
    /\ email.result.action_required

====
